---- MODULE Spec2Model ----
(***************************************************************************)
(* Table-structure reconstruction, HTML export and the batch driver of     *)
(* yomitoku:                                                               *)
(*   src/src/yomitoku/table_structure_recognizer.py                        *)
(*   src/src/yomitoku/utils/export.py                                      *)
(*   src/src/yomitoku/cli/main.py                                          *)
(* Boxes are tuples <<x1, y1, x2, y2>>.  Python lists are sequences.       *)
(***************************************************************************)
EXTENDS Integers, Sequences, FiniteSets

VARIABLES
    pc,          \* which call has been made on the current inputs
    row_boxes,   \* argument of extract_cells / elements["row"] boxes
    col_boxes,   \* argument of extract_cells / elements["col"] boxes
    span_boxes,  \* argument of filter_contained_cells_within_spancell
    cells,       \* value returned by extract_cells
    merged,      \* value returned by filter_contained_cells_within_spancell
    elems,       \* value returned by extract_cell_elements
    preds,       \* postprocessor output handed to postprocess (crop-local)
    data,        \* the crop: offset and size
    table,       \* value returned by postprocess
    outputs,     \* argument of export_html: tables and paragraphs
    html,        \* what export_html computed
    all_files,   \* main: the directory listing (or the single file)
    is_dir,      \* main: path.is_dir()
    idx,         \* main: position of the for loop in all_files
    invoked,     \* main: files process_single_file was called on, in order
    artifacts,   \* main: output files written
    propagated   \* main: an exception left main

vars == <<pc, row_boxes, col_boxes, span_boxes, cells, merged, elems,
          preds, data, table, outputs, html,
          all_files, is_dir, idx, invoked, artifacts, propagated>>

tableVars == <<row_boxes, col_boxes, span_boxes, cells, merged, elems>>
postVars  == <<preds, data, table>>
htmlVars  == <<outputs, html>>
mainVars  == <<all_files, is_dir, idx, invoked, artifacts, propagated>>

----------------------------------------------------------------------------
(* Bounds of the model.                                                    *)

MaxRows == 2
MaxCols == 2
MaxSpans == 2
MaxDets == 4
MaxTables == 2
MaxParagraphs == 2
MaxFiles == 3
MaxPages == 2

----------------------------------------------------------------------------
(* Python values and builtins.                                             *)

\* None as the value of a cell's contents
None == "None"

\* None as the value returned by calc_intersection
NoBox == <<>>

SeqsUpTo(S, n) == UNION {[1..k -> S] : k \in 0..n}

\* tuple comparison of two keys of the same length
RECURSIVE LexLess(_, _)
LexLess(a, b) ==
    IF a = <<>> THEN FALSE
    ELSE IF Head(a) # Head(b) THEN Head(a) < Head(b)
    ELSE LexLess(Tail(a), Tail(b))

\* sorted(seq, key=key): ascending, equal keys keep their input order
\* (keys[i] is the key of seq[i])
sorted(seq, keys) ==
    LET n == Len(seq)
        before(j, i) == \/ LexLess(keys[j], keys[i])
                        \/ (keys[j] = keys[i] /\ j < i)
        rank == [i \in 1..n |-> Cardinality({j \in 1..n : before(j, i)}) + 1]
    IN  [p \in 1..n |-> seq[CHOOSE i \in 1..n : rank[i] = p]]

\* [x for x, flag in zip(seq, flags) if flag]
RECURSIVE SelectFrom(_, _, _)
SelectFrom(seq, flags, k) ==
    IF k > Len(seq) THEN <<>>
    ELSE IF flags[k] THEN <<seq[k]>> \o SelectFrom(seq, flags, k + 1)
    ELSE SelectFrom(seq, flags, k + 1)

Select(seq, flags) == SelectFrom(seq, flags, 1)

\* min(xs) / max(xs): ValueError on an empty list
py_min(xs) ==
    IF xs = <<>> THEN [raised |-> TRUE, value |-> 0]
    ELSE [raised |-> FALSE,
          value |-> CHOOSE v \in {xs[i] : i \in 1..Len(xs)} :
                        \A k \in 1..Len(xs) : v <= xs[k]]

py_max(xs) ==
    IF xs = <<>> THEN [raised |-> TRUE, value |-> 0]
    ELSE [raised |-> FALSE,
          value |-> CHOOSE v \in {xs[i] : i \in 1..Len(xs)} :
                        \A k \in 1..Len(xs) : v >= xs[k]]

Max2(a, b) == IF a >= b THEN a ELSE b
Min2(a, b) == IF a <= b THEN a ELSE b

----------------------------------------------------------------------------
(* utils.misc (GeometryKernel, spec section 4.1).                          *)

\* overlap rectangle when width and height are strictly positive, else None
calc_intersection(rect_a, rect_b) ==
    LET ix1 == Max2(rect_a[1], rect_b[1])
        iy1 == Max2(rect_a[2], rect_b[2])
        ix2 == Min2(rect_a[3], rect_b[3])
        iy2 == Min2(rect_a[4], rect_b[4])
    IN  IF ix2 - ix1 > 0 /\ iy2 - iy1 > 0
        THEN <<ix1, iy1, ix2, iy2>>
        ELSE NoBox

\* the containment threshold, in percent of the inner box's area
ContainThresholdPct == 80

Area(box) == (box[3] - box[1]) * (box[4] - box[2])

\* inner is substantially covered by outer
is_contained(outer, inner) ==
    LET inter == calc_intersection(outer, inner)
    IN  /\ inter # NoBox
        /\ Area(inter) * 100 > ContainThresholdPct * Area(inner)

filter_by_flag(elements, flags) == Select(elements, flags)

----------------------------------------------------------------------------
(* table_structure_recognizer.py                                           *)

Cell(row, col, row_span, col_span, box, contents) ==
    [col |-> col, row |-> row, col_span |-> col_span, row_span |-> row_span,
     box |-> box, contents |-> contents]

\* extract_cells with the row index taken from enumerate() unshifted
extract_cells_zero_based(rbs, cbs) ==
    LET m == Len(rbs)
        n == Len(cbs)
        I(p) == ((p - 1) \div n) + 1
        J(p) == ((p - 1) % n) + 1
        all == [p \in 1..(m * n) |->
                   Cell(I(p) - 1, J(p), 1, 1,
                        calc_intersection(rbs[I(p)], cbs[J(p)]), None)]
    IN  Select(all, [p \in 1..(m * n) |-> all[p].box # NoBox])

\* lines 41-60: the two nested loops visit the pairs (i, j) row-major
extract_cells(rbs, cbs) ==
    LET m == Len(rbs)
        n == Len(cbs)
        I(p) == ((p - 1) \div n) + 1
        J(p) == ((p - 1) % n) + 1
        all == [p \in 1..(m * n) |->
                   Cell(I(p), J(p), 1, 1,
                        calc_intersection(rbs[I(p)], cbs[J(p)]), None)]
    IN  Select(all, [p \in 1..(m * n) |-> all[p].box # NoBox])

\* lines 64-70: child_boxes[i], the cells span box i contains, in cell order
ChildBoxes(cs, sbs) ==
    [i \in 1..Len(sbs) |->
        Select(cs, [j \in 1..Len(cs) |-> is_contained(sbs[i], cs[j].box)])]

\* lines 64-70: check_list[j] is False once any span box contains cell j
CheckList(cs, sbs) ==
    [j \in 1..Len(cs) |->
        ~ \E i \in 1..Len(sbs) : is_contained(sbs[i], cs[j].box)]

\* lines 80-96: the merged cell of one span box
SpanCell(child_box, span_box) ==
    LET rows == [k \in 1..Len(child_box) |-> child_box[k].row]
        cols == [k \in 1..Len(child_box) |-> child_box[k].col]
        row  == py_min(rows)
        col  == py_min(cols)
        rmax == py_max(rows)
        cmax == py_max(cols)
    IN  [raised |-> row.raised \/ col.raised \/ rmax.raised \/ cmax.raised,
         cell |-> Cell(row.value, col.value,
                       rmax.value - row.value + 1,
                       cmax.value - col.value + 1,
                       span_box, None)]

\* the loop of lines 74-96 without the test of lines 77-78
RECURSIVE AppendSpanCellsNoGuard(_, _, _, _)
AppendSpanCellsNoGuard(acc, sbs, child_boxes, i) ==
    IF i > Len(sbs) THEN [raised |-> FALSE, cells |-> acc]
    ELSE LET sc == SpanCell(child_boxes[i], sbs[i])
         IN  IF sc.raised THEN [raised |-> TRUE, cells |-> <<>>]
             ELSE AppendSpanCellsNoGuard(Append(acc, sc.cell), sbs,
                                         child_boxes, i + 1)

\* lines 74-96: one merged cell appended per span box that has children
RECURSIVE AppendSpanCells(_, _, _, _)
AppendSpanCells(acc, sbs, child_boxes, i) ==
    IF i > Len(sbs) THEN [raised |-> FALSE, cells |-> acc]
    ELSE IF Len(child_boxes[i]) = 0
         THEN AppendSpanCells(acc, sbs, child_boxes, i + 1)
    ELSE LET sc == SpanCell(child_boxes[i], sbs[i])
         IN  IF sc.raised THEN [raised |-> TRUE, cells |-> <<>>]
             ELSE AppendSpanCells(Append(acc, sc.cell), sbs,
                                  child_boxes, i + 1)

RowCol(x) == <<x.row, x.col>>

\* key=lambda x: (x["row"], x["col"]) over a list of cells
RowColKeys(cs) == [k \in 1..Len(cs) |-> RowCol(cs[k])]

\* key=lambda x: x[1] (rows) and key=lambda x: x[0] (columns) over boxes
TopKeys(boxes) == [k \in 1..Len(boxes) |-> <<boxes[k][2]>>]
LeftKeys(boxes) == [k \in 1..Len(boxes) |-> <<boxes[k][1]>>]

\* the boxes of the elements of one category
Boxes(elements) == [k \in 1..Len(elements) |-> elements[k].box]

\* the function without the sort of line 98
filter_no_sort(cs, sbs) ==
    AppendSpanCells(filter_by_flag(cs, CheckList(cs, sbs)), sbs,
                    ChildBoxes(cs, sbs), 1)

\* the function without the filter of line 72
filter_keep_children(cs, sbs) ==
    LET r == AppendSpanCells(cs, sbs, ChildBoxes(cs, sbs), 1)
    IN  [raised |-> r.raised, cells |-> sorted(r.cells, RowColKeys(r.cells))]

\* lines 63-99
filter_contained_cells_within_spancell(cs, sbs) ==
    LET r == AppendSpanCells(filter_by_flag(cs, CheckList(cs, sbs)), sbs,
                             ChildBoxes(cs, sbs), 1)
    IN  [raised |-> r.raised, cells |-> sorted(r.cells, RowColKeys(r.cells))]

\* extract_cell_elements with n_row and n_col counted on the returned cells
extract_cell_elements_count_cells(elements) ==
    LET rbs == sorted(Boxes(elements.row), TopKeys(Boxes(elements.row)))
        cbs == sorted(Boxes(elements.col), LeftKeys(Boxes(elements.col)))
        sbs == Boxes(elements.span)
        r   == filter_contained_cells_within_spancell(extract_cells(rbs, cbs), sbs)
    IN  [raised |-> r.raised, cells |-> r.cells,
         n_row |-> Cardinality({r.cells[k].row : k \in 1..Len(r.cells)}),
         n_col |-> Cardinality({r.cells[k].col : k \in 1..Len(r.cells)})]

\* lines 212-223
extract_cell_elements(elements) ==
    LET rbs == sorted(Boxes(elements.row), TopKeys(Boxes(elements.row)))
        cbs == sorted(Boxes(elements.col), LeftKeys(Boxes(elements.col)))
        sbs == Boxes(elements.span)
        r   == filter_contained_cells_within_spancell(extract_cells(rbs, cbs), sbs)
    IN  [raised |-> r.raised, cells |-> r.cells,
         n_row |-> Len(rbs), n_col |-> Len(cbs)]

\* layout_parser (CategoryDeduplicator, spec section 4.2), one category:
\* A is dropped when another box B contains it and B's score is not lower;
\* of two mutually contained boxes of equal score the first one stays
DedupCategory(elements) ==
    LET n == Len(elements)
        inside(a, b) == is_contained(elements[b].box, elements[a].box)
        tieKeeps(a, b) == /\ elements[a].score = elements[b].score
                          /\ inside(b, a)
                          /\ a < b
        drop(a) == \E b \in 1..n :
                      /\ b # a
                      /\ inside(a, b)
                      /\ elements[b].score >= elements[a].score
                      /\ ~ tieKeeps(a, b)
    IN  Select(elements, [a \in 1..n |-> ~ drop(a)])

filter_contained_rectangles_within_category(category_elements) ==
    [row  |-> DedupCategory(category_elements.row),
     col  |-> DedupCategory(category_elements.col),
     span |-> DedupCategory(category_elements.span)]

\* box.astype(int): a coordinate given in half pixels, truncated toward zero
astype_int(v) == IF v >= 0 THEN v \div 2 ELSE -((-v) \div 2)

IntBox(box) == [k \in 1..4 |-> astype_int(box[k])]

\* lines 177-180 with the x offset added to all four coordinates
AddOffsetXOnly(box, offset) ==
    <<box[1] + offset[1], box[2] + offset[1],
      box[3] + offset[1], box[4] + offset[1]>>

\* lines 177-180
AddOffset(box, offset) ==
    <<box[1] + offset[1], box[2] + offset[2],
      box[3] + offset[1], box[4] + offset[2]>>

\* lines 172-187: the detections of one category, in prediction order
CategoryElements(ps, d, category) ==
    LET of == Select(ps, [k \in 1..Len(ps) |-> ps[k].label = category])
    IN  [k \in 1..Len(of) |->
            [box |-> AddOffset(IntBox(of[k].box), d.offset),
             score |-> of[k].score]]

\* lines 162-210
postprocess(ps, d) ==
    LET category_elements ==
            filter_contained_rectangles_within_category(
                [row  |-> CategoryElements(ps, d, "row"),
                 col  |-> CategoryElements(ps, d, "col"),
                 span |-> CategoryElements(ps, d, "span")])
        r == extract_cell_elements(category_elements)
        table_x == d.offset[1]
        table_y == d.offset[2]
    IN  [raised |-> r.raised,
         box |-> <<table_x, table_y, table_x + d.size[2], table_y + d.size[1]>>,
         n_row |-> r.n_row, n_col |-> r.n_col,
         cells |-> r.cells, order |-> 0]

----------------------------------------------------------------------------
(* utils/export.py.  A string of markup is a sequence of tokens.           *)

Tok(tag) == [tag |-> tag, rowspan |-> 0, colspan |-> 0, text |-> ""]

\* line 22: f'<td rowspan="{row_span}" colspan="{col_span}">{contents}</td>'
Td(row_span, col_span, contents) ==
    [tag |-> "td", rowspan |-> row_span, colspan |-> col_span, text |-> contents]

\* lines 8-23: the loop over table.cells
RECURSIVE CellLoop(_, _, _, _)
CellLoop(cs, k, pre_row, table_html) ==
    IF k > Len(cs) THEN table_html
    ELSE LET cell == cs[k]
             contents == IF cell.contents = None THEN "" ELSE cell.contents
             td == Td(cell.row_span, cell.col_span, contents)
         IN  IF cell.row # pre_row
             THEN CellLoop(cs, k + 1, cell.row,
                           table_html \o <<Tok("/tr"), Tok("tr"), td>>)
             ELSE CellLoop(cs, k + 1, pre_row, Append(table_html, td))

\* lines 6-25: the markup of one table; the else clause of the for loop
\* always runs, the loop has no break
TableHtml(t) ==
    CellLoop(t.cells, 1, 1, <<Tok("table"), Tok("tr")>>)
        \o <<Tok("/tr"), Tok("/table")>>

\* line 35: f"<p>{paraghraph.contents}</p>"
ParagraphHtml(p) == <<[Tok("p") EXCEPT !.text = p.contents]>>

\* lines 4-41: one element per table, then one per paragraph
Fragments(outs) ==
    [k \in 1..Len(outs.tables) |->
        [box |-> outs.tables[k].box, html |-> TableHtml(outs.tables[k])]]
    \o [k \in 1..Len(outs.paragraphs) |->
        [box |-> outs.paragraphs[k].box,
         html |-> ParagraphHtml(outs.paragraphs[k])]]

\* line 44: "".join(...)
RECURSIVE Join(_)
Join(strs) == IF strs = <<>> THEN <<>> ELSE Head(strs) \o Join(Tail(strs))

\* lines 53-54
add_html_tag(text) ==
    <<Tok("html"), Tok("body")>> \o text \o <<Tok("/body"), Tok("/html")>>

\* export_html sorting on box[0], the left edge
export_html_by_x1(outs) ==
    LET fragments == Fragments(outs)
        elements  == sorted(fragments, LeftKeys(Boxes(fragments)))
    IN  [fragments |-> fragments, elements |-> elements,
         text |-> add_html_tag(Join([k \in 1..Len(elements) |-> elements[k].html]))]

\* lines 1-50: the fragments built, the sorted elements and the text written
export_html(outs) ==
    LET fragments == Fragments(outs)
        elements  == sorted(fragments, TopKeys(Boxes(fragments)))
    IN  [fragments |-> fragments, elements |-> elements,
         text |-> add_html_tag(Join([k \in 1..Len(elements) |-> elements[k].html]))]

----------------------------------------------------------------------------
(* cli/main.py.  A file is [name, pages, loads, bad_page]: load_pdf or     *)
(* load_image raises when ~loads; the analyzer or the writer raises on     *)
(* page bad_page (0: on no page).                                          *)

\* lines 16-77: the pages written before an exception, and whether one left
process_single_file(path) ==
    IF ~ path.loads THEN [raised |-> TRUE, written |-> <<>>]
    ELSE LET last == IF path.bad_page = 0 THEN path.pages
                     ELSE path.bad_page - 1
         IN  [raised |-> path.bad_page # 0,
              written |-> [p \in 1..last |-> <<path.name, p>>]]

\* the loop body with the exception raised again by the handler
LoopBodyReraise(f) ==
    LET r == process_single_file(f)
    IN  [written |-> r.written, escaped |-> r.raised]

\* lines 212-220: try: process_single_file(...)  except Exception: continue
LoopBody(f) ==
    LET r == process_single_file(f)
    IN  [written |-> r.written, escaped |-> FALSE]

----------------------------------------------------------------------------
(* Inputs.                                                                 *)

\* two full-width rows and a row that stops before the right column
RowPool == {<<0, 0, 12, 6>>, <<0, 6, 12, 12>>, <<0, 6, 6, 12>>}

\* two full-height columns and a column that stops above the lower row
ColPool == {<<0, 0, 6, 12>>, <<6, 0, 12, 12>>, <<6, 0, 12, 6>>}

\* the whole table, most of the table, and a box off the table
SpanPool == {<<0, 0, 12, 12>>, <<0, 0, 11, 11>>, <<20, 20, 30, 30>>}

\* detections as the postprocessor returns them: crop-local boxes in half
\* pixels, a score and a category
Det(box, score, label) == [box |-> box, score |-> score, label |-> label]

DetPool ==
    {Det(<<0, 0, 24, 12>>, 9, "row"),
     Det(<<1, 13, 24, 25>>, 8, "row"),
     Det(<<1, 3, 24, 13>>, 5, "row"),
     Det(<<0, 0, 12, 24>>, 9, "col"),
     Det(<<13, -1, 25, 24>>, 8, "col"),
     Det(<<0, 0, 24, 24>>, 7, "span")}

Offsets == {<<0, 0>>, <<3, 7>>}

Crops == {[offset |-> o, size |-> <<12, 12>>] : o \in Offsets}

Ys == {50, 100}

\* cell lists sorted by (row, col): empty, one row, a first row that is not
\* row 1, and a table with a merged cell
CellLists ==
    {<<>>,
     <<Cell(1, 1, 1, 1, <<0, 0, 1, 1>>, "a")>>,
     <<Cell(2, 1, 1, 1, <<0, 1, 1, 2>>, None)>>,
     <<Cell(1, 1, 1, 2, <<0, 0, 2, 1>>, "a"),
       Cell(2, 1, 1, 1, <<0, 1, 1, 2>>, None),
       Cell(2, 2, 1, 1, <<1, 1, 2, 2>>, "b")>>}

\* an element lower on the page lies further to the left
BoxAt(y) == <<100 - y, y, 110 - y, y + 10>>

TablePool == {[box |-> BoxAt(y), cells |-> cl] : y \in Ys, cl \in CellLists}

ParagraphPool == {[box |-> BoxAt(y), contents |-> c] : y \in Ys, c \in {"p", "q"}}

FileKinds ==
    {k \in [pages : 1..MaxPages, loads : BOOLEAN, bad_page : 0..MaxPages] :
        /\ k.bad_page <= k.pages
        /\ ~ k.loads => k.bad_page = 0}

Listings(n) ==
    {[i \in 1..n |-> [name |-> i, pages |-> ks[i].pages, loads |-> ks[i].loads,
                      bad_page |-> ks[i].bad_page]] : ks \in [1..n -> FileKinds]}

NoResult == [raised |-> FALSE, cells |-> <<>>]
NoElems  == [raised |-> FALSE, cells |-> <<>>, n_row |-> 0, n_col |-> 0]
NoTable  == [raised |-> FALSE, box |-> <<0, 0, 0, 0>>, n_row |-> 0, n_col |-> 0,
             cells |-> <<>>, order |-> 0]
NoCrop   == [offset |-> <<0, 0>>, size |-> <<0, 0>>]
NoHtml   == [fragments |-> <<>>, elements |-> <<>>, text |-> <<>>]
NoOutputs == [tables |-> <<>>, paragraphs |-> <<>>]

IdleTable == /\ row_boxes = <<>> /\ col_boxes = <<>> /\ span_boxes = <<>>
             /\ cells = <<>> /\ merged = NoResult /\ elems = NoElems
IdlePost  == preds = <<>> /\ data = NoCrop /\ table = NoTable
IdleHtml  == outputs = NoOutputs /\ html = NoHtml
IdleMain  == /\ all_files = <<>> /\ is_dir = FALSE /\ idx = 1
             /\ invoked = <<>> /\ artifacts = <<>> /\ propagated = FALSE

----------------------------------------------------------------------------
(* extract_cells, filter_contained_cells_within_spancell and               *)
(* extract_cell_elements called on lists of boxes.                         *)

Init ==
    /\ pc = "input"
    /\ row_boxes \in SeqsUpTo(RowPool, MaxRows)
    /\ col_boxes \in SeqsUpTo(ColPool, MaxCols)
    /\ span_boxes = <<>> /\ cells = <<>> /\ merged = NoResult /\ elems = NoElems
    /\ IdlePost /\ IdleHtml /\ IdleMain

CallExtractCells ==
    /\ pc = "input"
    /\ cells' = extract_cells(row_boxes, col_boxes)
    /\ pc' = "cells"
    /\ UNCHANGED <<row_boxes, col_boxes, span_boxes, merged, elems>>
    /\ UNCHANGED <<postVars, htmlVars, mainVars>>

CallFilter ==
    /\ pc = "cells"
    /\ \E sbs \in SeqsUpTo(SpanPool, MaxSpans) :
          /\ span_boxes' = sbs
          /\ merged' = filter_contained_cells_within_spancell(cells, sbs)
    /\ pc' = "merged"
    /\ UNCHANGED <<row_boxes, col_boxes, cells, elems>>
    /\ UNCHANGED <<postVars, htmlVars, mainVars>>

\* the elements of the three categories; extract_cell_elements reads no score
Elements(rbs, cbs, sbs) ==
    [row  |-> [k \in 1..Len(rbs) |-> [box |-> rbs[k], score |-> 1]],
     col  |-> [k \in 1..Len(cbs) |-> [box |-> cbs[k], score |-> 1]],
     span |-> [k \in 1..Len(sbs) |-> [box |-> sbs[k], score |-> 1]]]

CallExtractCellElements ==
    /\ pc = "input"
    /\ \E sbs \in SeqsUpTo(SpanPool, MaxSpans) :
          /\ span_boxes' = sbs
          /\ elems' = extract_cell_elements(Elements(row_boxes, col_boxes, sbs))
    /\ pc' = "elements"
    /\ UNCHANGED <<row_boxes, col_boxes, cells, merged>>
    /\ UNCHANGED <<postVars, htmlVars, mainVars>>

Next == CallExtractCells \/ CallFilter \/ CallExtractCellElements

Spec == Init /\ [][Next]_vars

----------------------------------------------------------------------------
(* postprocess called on the detections of one table crop.                 *)

InitTable ==
    /\ pc = "preds"
    /\ preds \in SeqsUpTo(DetPool, MaxDets)
    /\ data \in Crops
    /\ table = NoTable
    /\ IdleTable /\ IdleHtml /\ IdleMain

CallPostprocess ==
    /\ pc = "preds"
    /\ table' = postprocess(preds, data)
    /\ pc' = "table"
    /\ UNCHANGED <<preds, data>>
    /\ UNCHANGED <<tableVars, htmlVars, mainVars>>

NextTable == CallPostprocess

SpecTable == InitTable /\ [][NextTable]_vars

----------------------------------------------------------------------------
(* export_html called on the tables and paragraphs of one page.            *)

InitHtml ==
    /\ pc = "outputs"
    /\ outputs \in [tables : SeqsUpTo(TablePool, MaxTables),
                    paragraphs : SeqsUpTo(ParagraphPool, MaxParagraphs)]
    /\ html = NoHtml
    /\ IdleTable /\ IdlePost /\ IdleMain

CallExportHtml ==
    /\ pc = "outputs"
    /\ html' = export_html(outputs)
    /\ pc' = "exported"
    /\ UNCHANGED outputs
    /\ UNCHANGED <<tableVars, postVars, mainVars>>

NextHtml == CallExportHtml

SpecHtml == InitHtml /\ [][NextHtml]_vars

----------------------------------------------------------------------------
(* main, lines 209-226.                                                    *)

InitMain ==
    /\ pc = "main"
    /\ is_dir \in BOOLEAN
    /\ all_files \in UNION {Listings(n) : n \in 0..MaxFiles}
    /\ ~ is_dir => Len(all_files) = 1
    /\ idx = 1 /\ invoked = <<>> /\ artifacts = <<>> /\ propagated = FALSE
    /\ IdleTable /\ IdlePost /\ IdleHtml

\* lines 211-220: one iteration of the loop over all_files
DirStep ==
    /\ pc = "main" /\ is_dir /\ idx <= Len(all_files)
    /\ LET b == LoopBody(all_files[idx])
       IN  /\ invoked' = Append(invoked, all_files[idx].name)
           /\ artifacts' = artifacts \o b.written
           /\ propagated' = b.escaped
           /\ pc' = IF b.escaped THEN "exit" ELSE "main"
    /\ idx' = idx + 1
    /\ UNCHANGED <<all_files, is_dir>>
    /\ UNCHANGED <<tableVars, postVars, htmlVars>>

\* the loop is exhausted and main returns
DirEnd ==
    /\ pc = "main" /\ is_dir /\ idx > Len(all_files)
    /\ pc' = "exit"
    /\ UNCHANGED mainVars
    /\ UNCHANGED <<tableVars, postVars, htmlVars>>

\* lines 221-226: a single file, outside any try
SingleFile ==
    /\ pc = "main" /\ ~ is_dir
    /\ LET r == process_single_file(all_files[1])
       IN  /\ invoked' = Append(invoked, all_files[1].name)
           /\ artifacts' = artifacts \o r.written
           /\ propagated' = r.raised
    /\ idx' = idx + 1
    /\ pc' = "exit"
    /\ UNCHANGED <<all_files, is_dir>>
    /\ UNCHANGED <<tableVars, postVars, htmlVars>>

NextMain == DirStep \/ DirEnd \/ SingleFile

SpecMain == InitMain /\ [][NextMain]_vars

----------------------------------------------------------------------------
(* Properties of extract_cells.                                            *)

CellsAt(cs, i, j) == {k \in 1..Len(cs) : cs[k].row = i /\ cs[k].col = j}

AllIntersect ==
    \A i \in 1..Len(row_boxes), j \in 1..Len(col_boxes) :
        calc_intersection(row_boxes[i], col_boxes[j]) # NoBox

\* C1: extract_cells returns, for every pair (i, j) of a row box and a column
\* box, exactly one cell (row i, col j, spans 1, no contents, box the
\* intersection) when the two boxes intersect and no cell when they do not;
\* so at most m*n cells, and exactly m*n when all pairs intersect.
C1_GridSize ==
    pc = "cells" =>
        LET m == Len(row_boxes)
            n == Len(col_boxes)
        IN  /\ Len(cells) <= m * n
            /\ \A k \in 1..Len(cells) :
                  cells[k].row \in 1..m /\ cells[k].col \in 1..n
            /\ \A i \in 1..m, j \in 1..n :
                  LET box == calc_intersection(row_boxes[i], col_boxes[j])
                      at  == CellsAt(cells, i, j)
                  IN  IF box = NoBox THEN at = {}
                      ELSE /\ Cardinality(at) = 1
                           /\ \A k \in at : cells[k] = Cell(i, j, 1, 1, box, None)
            /\ AllIntersect => Len(cells) = m * n

C1_Witness ==
    /\ pc = "cells"
    /\ Len(row_boxes) = 2 /\ Len(col_boxes) = 2
    /\ AllIntersect
    /\ Len(cells) = 4

----------------------------------------------------------------------------
(* Properties of filter_contained_cells_within_spancell.                   *)

\* the primitive cells span box i contains
Covered(i) ==
    {j \in 1..Len(cells) : is_contained(span_boxes[i], cells[j].box)}

\* the primitive cells no span box contains
Unclaimed ==
    {j \in 1..Len(cells) : \A i \in 1..Len(span_boxes) : j \notin Covered(i)}

OutCells == merged.cells

WithBox(box) == {k \in 1..Len(OutCells) : OutCells[k].box = box}

SameSpans(i) == {h \in 1..Len(span_boxes) : span_boxes[h] = span_boxes[i]}

MinOf(S) == CHOOSE v \in S : \A w \in S : v <= w
MaxOf(S) == CHOOSE v \in S : \A w \in S : v >= w

\* the covered cells occupy every position of their bounding index rectangle
FillsRectangle(cov) ==
    LET rs == {cells[j].row : j \in cov}
        cs == {cells[j].col : j \in cov}
    IN  \A r \in MinOf(rs)..MaxOf(rs), c \in MinOf(cs)..MaxOf(cs) :
            \E j \in cov : cells[j].row = r /\ cells[j].col = c

\* one merged cell per span box that covers a cell, and the covered cells gone
OneMergedCell(i, cov) ==
    /\ Cardinality(WithBox(span_boxes[i])) = Cardinality(SameSpans(i))
    /\ \A j \in cov :
          \A k \in 1..Len(OutCells) : OutCells[k] # cells[j]

\* C2 as stated: a span box that contains k >= 1 primitive cells yields one
\* merged cell with row_span * col_span = k, and the k cells are removed.
C2_ProductEqualsK ==
    pc = "merged" =>
        \A i \in 1..Len(span_boxes) :
            LET cov == Covered(i)
            IN  cov # {} =>
                    /\ OneMergedCell(i, cov)
                    /\ \A k \in WithBox(span_boxes[i]) :
                          OutCells[k].row_span * OutCells[k].col_span
                              = Cardinality(cov)

\* C2 amended: a span box that contains k >= 1 primitive cells yields one
\* merged cell at (min row, min col) whose row_span * col_span is the size of
\* the bounding index rectangle of the k cells: at least k, and equal to k
\* exactly when the k cells fill that rectangle; the k cells are removed.
C2_ProductAtLeastK ==
    pc = "merged" =>
        \A i \in 1..Len(span_boxes) :
            LET cov == Covered(i)
                rs  == {cells[j].row : j \in cov}
                cs  == {cells[j].col : j \in cov}
                k   == Cardinality(cov)
                fills == FillsRectangle(cov)
            IN  cov # {} =>
                    /\ OneMergedCell(i, cov)
                    /\ \A c \in WithBox(span_boxes[i]) :
                          /\ OutCells[c].row = MinOf(rs)
                          /\ OutCells[c].col = MinOf(cs)
                          /\ OutCells[c].row_span = MaxOf(rs) - MinOf(rs) + 1
                          /\ OutCells[c].col_span = MaxOf(cs) - MinOf(cs) + 1
                          /\ OutCells[c].row_span * OutCells[c].col_span >= k
                          /\ (OutCells[c].row_span * OutCells[c].col_span = k)
                                <=> fills

\* a span box over three cells of a sparse or partly covered 2 x 2 block
C2_Witness ==
    /\ pc = "merged"
    /\ \E i \in 1..Len(span_boxes) :
          /\ Cardinality(Covered(i)) = 3
          /\ \E c \in WithBox(span_boxes[i]) :
                OutCells[c].row_span = 2 /\ OutCells[c].col_span = 2

\* the grid positions a cell occupies
Positions(c) ==
    (c.row .. (c.row + c.row_span - 1)) \X (c.col .. (c.col + c.col_span - 1))

\* C3 as stated: no two distinct cells of the output share a grid position.
C3_NoOverlap ==
    pc = "merged" =>
        \A a, b \in 1..Len(OutCells) :
            (a # b /\ OutCells[a] # OutCells[b]) =>
                Positions(OutCells[a]) \cap Positions(OutCells[b]) = {}

IsSorted(cs) ==
    \A a, b \in 1..Len(cs) : a < b => ~ LexLess(RowCol(cs[b]), RowCol(cs[a]))

\* C4: the list returned by filter_contained_cells_within_spancell, and the
\* cell list extract_cell_elements hands to the Table, is ascending in
\* (row, col), and a stable sort by (row, col) leaves it as it is.
C4_Sorted ==
    /\ pc = "merged" =>
          IsSorted(OutCells) /\ sorted(OutCells, RowColKeys(OutCells)) = OutCells
    /\ pc = "elements" =>
          IsSorted(elems.cells) /\ sorted(elems.cells, RowColKeys(elems.cells)) = elems.cells

\* a merged cell, appended after the kept cells, ends before one of them
C4_Witness ==
    /\ pc = "merged"
    /\ \E a, b \in 1..Len(OutCells) :
          /\ a < b
          /\ \E i \in 1..Len(span_boxes) : OutCells[a].box = span_boxes[i]
          /\ \E j \in Unclaimed : OutCells[b] = cells[j]

\* C5: a span box that contains no primitive cell adds no cell and raises no
\* error; every primitive cell no span box contains is in the output exactly
\* once, unchanged; when no span box contains a cell the output is the input
\* sorted by (row, col).
C5_PassThrough ==
    pc = "merged" =>
        /\ ~ merged.raised
        /\ \A i \in 1..Len(span_boxes) :
              Covered(i) = {} => WithBox(span_boxes[i]) = {}
        /\ \A j \in Unclaimed :
              Cardinality({k \in 1..Len(OutCells) : OutCells[k] = cells[j]}) = 1
        /\ Len(OutCells) = Cardinality(Unclaimed)
              + Cardinality({i \in 1..Len(span_boxes) : Covered(i) # {}})
        /\ (\A i \in 1..Len(span_boxes) : Covered(i) = {}) =>
              OutCells = sorted(cells, RowColKeys(cells))

\* one span box without a cell, one with cells, and a cell left unclaimed
C5_Witness ==
    /\ pc = "merged"
    /\ cells # <<>>
    /\ \E i \in 1..Len(span_boxes) : Covered(i) = {}
    /\ \E i \in 1..Len(span_boxes) : Covered(i) # {}
    /\ Unclaimed # {}

----------------------------------------------------------------------------
(* Properties of postprocess and extract_cell_elements.                    *)

\* the grid-and-merge pipeline on the crop-local detections
CropLocal == postprocess(preds, [data EXCEPT !.offset = <<0, 0>>])

Shifted(c, ox, oy) ==
    [c EXCEPT !.box = <<c.box[1] + ox, c.box[2] + oy,
                        c.box[3] + ox, c.box[4] + oy>>]

\* C6: the cells of the Table postprocess returns are the cells the pipeline
\* yields on the crop-local detections, with the same row, col, row_span and
\* col_span and every box shifted by (ox, oy, ox, oy).
C6_Translation ==
    pc = "table" =>
        LET local == CropLocal
        IN  /\ ~ table.raised
            /\ table.cells =
                  [k \in 1..Len(local.cells) |->
                      Shifted(local.cells[k], data.offset[1], data.offset[2])]
            /\ table.n_row = local.n_row /\ table.n_col = local.n_col

\* a crop off the page origin whose two rows are merged by the span box
C6_Witness ==
    /\ pc = "table"
    /\ data.offset = <<3, 7>>
    /\ table.n_row = 2
    /\ \E k \in 1..Len(table.cells) :
          table.cells[k].row_span = 2 /\ table.cells[k].box = <<3, 7, 15, 19>>

\* C7: extract_cell_elements returns the numbers of row boxes and of column
\* boxes as n_row and n_col whatever the span boxes merge, raises no error,
\* and returns no cell when there is no row box or no column box.
C7_Counts ==
    pc = "elements" =>
        /\ ~ elems.raised
        /\ elems.n_row = Len(row_boxes)
        /\ elems.n_col = Len(col_boxes)
        /\ (Len(row_boxes) = 0 \/ Len(col_boxes) = 0) => elems.cells = <<>>

\* no row box, a column box and two span boxes
C7_Witness ==
    /\ pc = "elements"
    /\ Len(row_boxes) = 0 /\ Len(col_boxes) > 0 /\ Len(span_boxes) = 2
    /\ elems.cells = <<>> /\ elems.n_row = 0

----------------------------------------------------------------------------
(* Properties of export_html.                                              *)

Y1(e) == e.box[2]

AtY(es, y) == Select(es, [k \in 1..Len(es) |-> Y1(es[k]) = y])

InputBoxes ==
    [k \in 1..Len(outputs.tables) |-> outputs.tables[k].box]
        \o [k \in 1..Len(outputs.paragraphs) |-> outputs.paragraphs[k].box]

\* C8: the text is the concatenation of the fragments of all tables and
\* paragraphs in ascending order of y1, fragments of equal y1 in input order
\* (tables in list order, then paragraphs in list order).
C8_OrderedByTop ==
    pc = "exported" =>
        /\ [k \in 1..Len(html.fragments) |-> html.fragments[k].box] = InputBoxes
        /\ html.text =
              add_html_tag(Join([k \in 1..Len(html.elements) |->
                                    html.elements[k].html]))
        /\ Len(html.elements) = Len(html.fragments)
        /\ \A a, b \in 1..Len(html.elements) :
              a < b => Y1(html.elements[a]) <= Y1(html.elements[b])
        /\ \A y \in Ys : AtY(html.elements, y) = AtY(html.fragments, y)

\* a table at y1 = 100 and a paragraph at y1 = 50: the paragraph comes first
C8_Witness ==
    /\ pc = "exported"
    /\ Len(outputs.tables) = 1 /\ Len(outputs.paragraphs) = 1
    /\ outputs.tables[1].box[2] = 100 /\ outputs.tables[1].cells # <<>>
    /\ outputs.paragraphs[1].box[2] = 50
    /\ html.text[3].tag = "p"
    /\ html.text[4].tag = "table"

Count(toks, tag) == Cardinality({k \in 1..Len(toks) : toks[k].tag = tag})

Tds(toks) == Select(toks, [k \in 1..Len(toks) |-> toks[k].tag = "td"])

\* the positions of the tokens with this tag, ascending
PositionsOf(toks, tag) ==
    Select([k \in 1..Len(toks) |-> k], [k \in 1..Len(toks) |-> toks[k].tag = tag])

\* the <td> tokens of each row element <tr>...</tr>, in order
RowElements(toks) ==
    LET opens  == PositionsOf(toks, "tr")
        closes == PositionsOf(toks, "/tr")
    IN  [g \in 1..Len(opens) |->
            Tds(SubSeq(toks, opens[g] + 1, closes[g] - 1))]

CellTd(c) ==
    Td(c.row_span, c.col_span, IF c.contents = None THEN "" ELSE c.contents)

\* the distinct row values of a sorted cell list, ascending
DistinctRows(cs) ==
    Select([k \in 1..Len(cs) |-> cs[k].row],
           [k \in 1..Len(cs) |-> k = 1 \/ cs[k].row # cs[k - 1].row])

\* C9 as stated: the markup of a table whose cells are sorted by (row, col)
\* holds one row element per distinct row value of the cell list and one <td>
\* per cell, in list order, inside the row element of the cell's row, with the
\* cell's spans and "" for absent contents; also when the first row value is
\* not 1 and when there is no cell.
C9_RowPerDistinctRow ==
    pc = "exported" =>
        \A t \in 1..Len(outputs.tables) :
            LET cs   == outputs.tables[t].cells
                toks == html.fragments[t].html
                rows == DistinctRows(cs)
            IN  /\ Count(toks, "/tr") = Count(toks, "tr")
                /\ Tds(toks) = [k \in 1..Len(cs) |-> CellTd(cs[k])]
                /\ RowElements(toks) =
                      [g \in 1..Len(rows) |->
                          LET of == Select(cs, [k \in 1..Len(cs) |->
                                                   cs[k].row = rows[g]])
                          IN  [k \in 1..Len(of) |-> CellTd(of[k])]]

----------------------------------------------------------------------------
(* Properties of main.                                                     *)

Names(fs) == [k \in 1..Len(fs) |-> fs[k].name]

Fails(f) == ~ f.loads \/ f.bad_page # 0

\* C10: over a directory, process_single_file is invoked once on every file
\* of the listing, in listing order, whichever files raise, and no exception
\* leaves main.
C10_BatchIsolation ==
    is_dir =>
        /\ ~ propagated
        /\ invoked = SubSeq(Names(all_files), 1, idx - 1)
        /\ pc = "exit" =>
              /\ invoked = Names(all_files)
              /\ \A k \in 1..Len(all_files) :
                    ~ Fails(all_files[k]) =>
                        \A p \in 1..all_files[k].pages :
                            \E a \in 1..Len(artifacts) :
                                artifacts[a] = <<all_files[k].name, p>>

\* three files: the first fails to load, the second fails on a page, the
\* third is processed after both
C10_Witness ==
    /\ is_dir /\ pc = "exit"
    /\ Len(all_files) = 3
    /\ ~ all_files[1].loads
    /\ all_files[2].bad_page = 1
    /\ ~ Fails(all_files[3])
    /\ invoked = <<1, 2, 3>>
    /\ \E k \in 1..Len(artifacts) : artifacts[k] = <<3, 1>>

====
